---- MODULE Spec2Model ----
(***************************************************************************)
(* Model of the DeFi risk AI service: the ML service (ai-service/main.py)  *)
(* and the minimal service (ai-service/simple_ai_service.py).              *)
(*                                                                         *)
(* Python floats are modelled as exact rationals plus the special values   *)
(* NaN, +inf, -inf; None is the absent value of an Optional field, and     *)
(* "err" is a raised exception travelling through an expression.           *)
(***************************************************************************)
EXTENDS Integers, Sequences, FiniteSets, TLC

(***************************************************************************)
(* State.                                                                  *)
(***************************************************************************)
VARIABLES
    phase,            \* "constructing": inside AIRiskService(); "serving" after it
    protocol_scorer,  \* ai_service.protocol_scorer: scaler, model, is_fitted
    model_version,    \* ai_service.model_version
    now,              \* the clock datetime.utcnow() reads
    req,              \* the request the caller sends
    crafted,          \* the hand-made prediction the caller sends to /explain
    calls,            \* the calls completed with these inputs, oldest first
    background        \* the retrain tasks: "queued", "sleeping" or "done"

vars ==
    <<phase, protocol_scorer, model_version, now, req, crafted, calls, background>>

(***************************************************************************)
(* Values.  Every value is a record [k, n, d]:                             *)
(*   k = "fin"  : the rational n/d, d > 0, in lowest terms                 *)
(*   k = "nan"  : float('nan')                                             *)
(*   k = "inf"  : float('inf') when n = 1, float('-inf') when n = -1       *)
(*   k = "none" : None                                                     *)
(*   k = "err"  : an exception was raised while computing the value        *)
(***************************************************************************)
RECURSIVE GCD(_, _)
GCD(a, b) ==
    IF b = 0 THEN a ELSE GCD(b, a % b)

AbsInt(x) ==
    IF x < 0 THEN -x ELSE x

Sign(x) ==
    IF x < 0 THEN -1 ELSE IF x = 0 THEN 0 ELSE 1

Fin(n, d) ==
    LET s == IF d < 0 THEN -1 ELSE 1
        g == GCD(AbsInt(n), AbsInt(d))
    IN  [k |-> "fin", n |-> (s * n) \div g, d |-> (s * d) \div g]

NaN ==
    [k |-> "nan", n |-> 0, d |-> 1]

PosInf ==
    [k |-> "inf", n |-> 1, d |-> 1]

NegInf ==
    [k |-> "inf", n |-> -1, d |-> 1]

Inf(s) ==
    [k |-> "inf", n |-> s, d |-> 1]

None ==
    [k |-> "none", n |-> 0, d |-> 1]

Err ==
    [k |-> "err", n |-> 0, d |-> 1]

IsFin(x) ==
    x.k = "fin"

IsNum(x) ==
    x.k \in {"fin", "nan", "inf"}

\* an operand that makes a float operation raise: an exception already
\* raised, or None (TypeError: unsupported operand type)
Raises(x) ==
    x.k \in {"err", "none"}

\* float.__lt__: False whenever an operand is NaN
Lt(a, b) ==
    CASE a.k = "nan" \/ b.k = "nan" -> FALSE
      [] a.k = "inf" /\ b.k = "inf" -> a.n < b.n
      [] a.k = "inf"                -> a.n < 0
      [] b.k = "inf"                -> b.n > 0
      [] OTHER                      -> a.n * b.d < b.n * a.d

Gt(a, b) ==
    Lt(b, a)

Le(a, b) ==
    a.k # "nan" /\ b.k # "nan" /\ ~Lt(b, a)

Neg(a) ==
    CASE Raises(a)   -> Err
      [] a.k = "nan" -> NaN
      [] a.k = "inf" -> Inf(-a.n)
      [] OTHER       -> Fin(-a.n, a.d)

Add(a, b) ==
    CASE Raises(a) \/ Raises(b)       -> Err
      [] a.k = "nan" \/ b.k = "nan"   -> NaN
      [] a.k = "inf" /\ b.k = "inf"   -> IF a.n = b.n THEN a ELSE NaN
      [] a.k = "inf"                  -> a
      [] b.k = "inf"                  -> b
      [] OTHER                        -> Fin(a.n * b.d + b.n * a.d, a.d * b.d)

Sub(a, b) ==
    Add(a, Neg(b))

Mul(a, b) ==
    CASE Raises(a) \/ Raises(b)       -> Err
      [] a.k = "nan" \/ b.k = "nan"   -> NaN
      [] a.k = "inf" \/ b.k = "inf"   ->
            IF Sign(a.n) * Sign(b.n) = 0 THEN NaN ELSE Inf(Sign(a.n) * Sign(b.n))
      [] OTHER                        -> Fin(a.n * b.n, a.d * b.d)

\* float.__truediv__: ZeroDivisionError on a zero divisor
Div(a, b) ==
    CASE Raises(a) \/ Raises(b)       -> Err
      [] b.k = "fin" /\ b.n = 0       -> Err
      [] a.k = "nan" \/ b.k = "nan"   -> NaN
      [] a.k = "inf" /\ b.k = "inf"   -> NaN
      [] a.k = "inf"                  -> Inf(a.n * Sign(b.n))
      [] b.k = "inf"                  -> Fin(0, 1)
      [] OTHER                        -> Fin(a.n * b.d, a.d * b.n)

Abs(a) ==
    CASE Raises(a)   -> Err
      [] a.k = "nan" -> NaN
      [] a.k = "inf" -> PosInf
      [] OTHER       -> Fin(AbsInt(a.n), a.d)

\* the builtin min(a, b): a, unless b < a (TypeError when an operand is None)
Min(a, b) ==
    CASE Raises(a) \/ Raises(b) -> Err
      [] Lt(b, a)               -> b
      [] OTHER                  -> a

\* the builtin max(a, b): a, unless b > a
Max(a, b) ==
    CASE Raises(a) \/ Raises(b) -> Err
      [] Gt(b, a)               -> b
      [] OTHER                  -> a

\* truthiness of an Optional[float]: None and 0.0 are falsy, NaN is truthy
Truthy(x) ==
    ~(x.k = "none" \/ (x.k = "fin" /\ x.n = 0))

\* x or 0
OrZero(x) ==
    IF Truthy(x) THEN x ELSE Fin(0, 1)

\* dict.get(key, default) on a dict stored as a function
Get(dict, key, default) ==
    IF key \in DOMAIN dict THEN dict[key] ELSE default

(***************************************************************************)
(* Literals of the source.                                                 *)
(***************************************************************************)
Zero ==
    Fin(0, 1)

One ==
    Fin(1, 1)

\* W_IL with the protocol weight typed in its place
W_IL_as_protocol ==
    Fin(3, 10)

\* weights of the composite score (main.py:226)
W_IL ==
    Fin(4, 10)

W_PROTOCOL ==
    Fin(3, 10)

W_MEV ==
    Fin(3, 10)

\* inclusion thresholds of the risk factors (main.py:327, 340, 352)
T_IL ==
    Fin(3, 10)

T_PROTOCOL ==
    Fin(3, 10)

T_MEV ==
    Fin(2, 10)

Million ==
    Fin(1000000, 1)

(***************************************************************************)
(* PredictionRequest (main.py:37-72), reduced to the fields the services   *)
(* read.  tvl_usd, volume_24h and fees_24h are Optional: None when absent. *)
(***************************************************************************)
Request(vol, liq, il, cv, p0, p1, tvl, volume, fees) ==
    [position     |-> [current_value |-> cv],
     pool_state   |-> [token0_price |-> p0, token1_price |-> p1,
                       tvl_usd |-> tvl, volume_24h |-> volume, fees_24h |-> fees],
     risk_metrics |-> [impermanent_loss |-> il, liquidity_score |-> liq,
                       volatility_score |-> vol]]

(***************************************************************************)
(* ProtocolRiskScorer (main.py:130-161).  The scaler and the isolation     *)
(* forest are library objects: the scaler is its fitted flag with the      *)
(* mean_/scale_ it learnt, the forest is its fitted flag.                  *)
(***************************************************************************)
\* ProtocolRiskScorer.__init__: nothing fitted
NewScorer ==
    [scaler    |-> [fitted |-> FALSE, mean_ |-> Zero, scale_ |-> One],
     model     |-> [fitted |-> FALSE],
     is_fitted |-> FALSE]

\* StandardScaler.fit on the synthetic normal(0, 1) sample of _initialize_models
FittedScaler ==
    [fitted |-> TRUE, mean_ |-> Zero, scale_ |-> One]

FittedModel ==
    [fitted |-> TRUE]

FittedScorer ==
    [scaler |-> FittedScaler, model |-> FittedModel, is_fitted |-> TRUE]

\* StandardScaler.transform: NotFittedError before fit, ValueError on an
\* infinite input, NaN passes through
transform(scaler, x) ==
    IF ~scaler.fitted \/ x.k = "inf"
    THEN Err
    ELSE Div(Sub(x, scaler.mean_), scaler.scale_)

\* the largest magnitude among a vector of finite values
RECURSIVE MaxAbs(_)
MaxAbs(xs) ==
    IF xs = <<>> THEN Zero ELSE Max(Abs(Head(xs)), MaxAbs(Tail(xs)))

\* decision_function of a forest that is not seeded: its score changes from
\* one call to the next
decision_function_unseeded(model, xs) ==
    IF ~model.fitted \/ \E i \in DOMAIN xs : ~IsFin(xs[i])
    THEN Err
    ELSE IF now = 0 THEN Fin(1, 5) ELSE Zero

\* IsolationForest.decision_function of the forest fitted with random_state=42
\* on the seeded synthetic sample: a fixed function of the scaled vector,
\* positive for inliers and negative for outliers; NotFittedError before fit,
\* ValueError on NaN or infinity.  The forest itself is library code: it is
\* represented by a fixed table over the distance from the training sample.
decision_function(model, xs) ==
    IF ~model.fitted \/ \E i \in DOMAIN xs : ~IsFin(xs[i])
    THEN Err
    ELSE LET m == MaxAbs(xs)
         IN  CASE m = Zero               -> Fin(3, 5)
               [] Le(m, One)             -> Fin(1, 5)
               [] Le(m, Fin(100, 1))     -> Zero
               [] Le(m, Million)         -> Fin(-3, 10)
               [] OTHER                  -> Fin(-3, 5)

\* ProtocolRiskScorer._default_risk_score (main.py:156-161).  The feature
\* array is a tuple indexed from 1: features[1] is Python's features[0]
\* (tvl_usd) and features[2] is Python's features[1] (volume_24h).
_default_risk_score(features) ==
    LET tvl_score == Min(One, Max(Zero, Div(Sub(Million, features[1]), Million)))
        vol_score == Min(One, Max(Zero, Div(features[2], Fin(100, 1))))
    IN  Div(Add(tvl_score, vol_score), Fin(2, 1))

\* ProtocolRiskScorer.predict_risk (main.py:144-154)
ProtocolRiskScorer_predict_risk(scorer, features) ==
    IF ~scorer.is_fitted
    THEN _default_risk_score(features)
    ELSE LET scaled_features ==
                 [i \in DOMAIN features |-> transform(scorer.scaler, features[i])]
             anomaly_score ==
                 IF \E i \in DOMAIN features : scaled_features[i].k = "err"
                 THEN Err
                 ELSE decision_function(scorer.model, scaled_features)
         IN  Max(Zero, Min(One, Div(Sub(Fin(1, 2), anomaly_score), One)))

\* detect_mev_risk with the front-running cut line written >=
detect_mev_risk_inclusive(pool_data) ==
    LET tvl            == Get(pool_data, "tvl_usd", Zero)
        volume         == Get(pool_data, "volume_24h", Zero)
        sandwich_risk  == Mul(Min(One, Div(volume, Max(tvl, One))), Fin(3, 10))
        frontrun_risk  == IF Raises(volume) THEN Err
                          ELSE IF Le(Fin(100000, 1), volume) THEN Fin(2, 10)
                          ELSE Fin(1, 10)
        arbitrage_risk == Fin(15, 100)
    IN  [sandwich_risk    |-> sandwich_risk,
         frontrun_risk    |-> frontrun_risk,
         arbitrage_risk   |-> arbitrage_risk,
         overall_mev_risk |->
             Div(Add(Add(sandwich_risk, frontrun_risk), arbitrage_risk), Fin(3, 1))]

\* detect_mev_risk with the sandwich ratio neither capped at 1 nor scaled
detect_mev_risk_unscaled(pool_data) ==
    LET tvl            == Get(pool_data, "tvl_usd", Zero)
        volume         == Get(pool_data, "volume_24h", Zero)
        sandwich_risk  == Div(volume, Max(tvl, One))
        frontrun_risk  == IF Raises(volume) THEN Err
                          ELSE IF Gt(volume, Fin(100000, 1)) THEN Fin(2, 10)
                          ELSE Fin(1, 10)
        arbitrage_risk == Fin(15, 100)
    IN  [sandwich_risk    |-> sandwich_risk,
         frontrun_risk    |-> frontrun_risk,
         arbitrage_risk   |-> arbitrage_risk,
         overall_mev_risk |->
             Div(Add(Add(sandwich_risk, frontrun_risk), arbitrage_risk), Fin(3, 1))]

(***************************************************************************)
(* MEVRiskDetector.detect_mev_risk (main.py:170-185).  pool_data carries   *)
(* the keys tvl_usd and volume_24h, so dict.get returns their value, None  *)
(* included, and never the default.                                        *)
(***************************************************************************)
detect_mev_risk(pool_data) ==
    LET tvl            == Get(pool_data, "tvl_usd", Zero)
        volume         == Get(pool_data, "volume_24h", Zero)
        sandwich_risk  == Mul(Min(One, Div(volume, Max(tvl, One))), Fin(3, 10))
        frontrun_risk  == IF Raises(volume) THEN Err
                          ELSE IF Gt(volume, Fin(100000, 1)) THEN Fin(2, 10)
                          ELSE Fin(1, 10)
        arbitrage_risk == Fin(15, 100)
    IN  [sandwich_risk    |-> sandwich_risk,
         frontrun_risk    |-> frontrun_risk,
         arbitrage_risk   |-> arbitrage_risk,
         overall_mev_risk |->
             Div(Add(Add(sandwich_risk, frontrun_risk), arbitrage_risk), Fin(3, 1))]

(***************************************************************************)
(* AIRiskService: the scoring path (main.py:211-247, 292-361).             *)
(***************************************************************************)
\* AIRiskService._extract_features (main.py:292-302)
_extract_features(request) ==
    [tvl_usd          |-> OrZero(request.pool_state.tvl_usd),
     volume_24h       |-> OrZero(request.pool_state.volume_24h),
     current_il       |-> request.risk_metrics.impermanent_loss,
     liquidity_score  |-> request.risk_metrics.liquidity_score,
     volatility_score |-> request.risk_metrics.volatility_score,
     position_size    |-> request.position.current_value,
     price_ratio      |-> Div(request.pool_state.token0_price,
                              Max(request.pool_state.token1_price, Fin(1, 1000)))]

\* AIRiskService._predict_impermanent_loss (main.py:304-309)
_predict_impermanent_loss(features) ==
    LET volatility       == features.volatility_score
        price_divergence == Abs(Sub(features.price_ratio, One))
    IN  Min(One, Add(Mul(volatility, Fin(6, 10)), Mul(price_divergence, Fin(4, 10))))

\* AIRiskService._predict_protocol_risk (main.py:311-320)
_predict_protocol_risk(scorer, features) ==
    LET feature_array == <<features.tvl_usd,
                           features.volume_24h,
                           features.volatility_score,
                           features.liquidity_score,
                           features.position_size>>
    IN  ProtocolRiskScorer_predict_risk(scorer, feature_array)

\* AIRiskFactor(...) (main.py:74-80); shap_values defaults to None, written <<>>
AIRiskFactor(id, name, importance, contribution, values, shap) ==
    [factor_id        |-> id,
     factor_name      |-> name,
     importance_score |-> importance,
     contribution     |-> contribution,
     feature_values   |-> values,
     shap_values      |-> shap]

\* Exceeds with the comparison written >=
ExceedsOrEquals(risk, threshold) ==
    Le(threshold, risk)

\* the gate of a risk factor: `risk > threshold` (main.py:327, 340, 352)
Exceeds(risk, threshold) ==
    Gt(risk, threshold)

\* _generate_risk_factors with the protocol factor placed first when it is
\* the more important of the first two
_generate_risk_factors_by_importance(features, il_risk, protocol_risk, mev_risks) ==
    LET il ==
            IF Exceeds(il_risk, T_IL)
            THEN <<AIRiskFactor("impermanent_loss", "Impermanent Loss Risk",
                                il_risk, Mul(il_risk, Fin(4, 10)),
                                [volatility       |-> features.volatility_score,
                                 price_divergence |-> Abs(Sub(features.price_ratio, One))],
                                [volatility |-> Fin(6, 10), price_divergence |-> Fin(4, 10)])>>
            ELSE <<>>
        protocol ==
            IF Exceeds(protocol_risk, T_PROTOCOL)
            THEN <<AIRiskFactor("protocol_risk", "Protocol Security Risk",
                                protocol_risk, Mul(protocol_risk, Fin(3, 10)),
                                [tvl |-> features.tvl_usd, volume |-> features.volume_24h],
                                <<>>)>>
            ELSE <<>>
        mev ==
            IF Exceeds(mev_risks.overall_mev_risk, T_MEV)
            THEN <<AIRiskFactor("mev_risk", "MEV Exploitation Risk",
                                mev_risks.overall_mev_risk,
                                Mul(mev_risks.overall_mev_risk, Fin(3, 10)),
                                mev_risks,
                                <<>>)>>
            ELSE <<>>
    IN  IF Gt(protocol_risk, il_risk)
        THEN protocol \o il \o mev
        ELSE il \o protocol \o mev

\* AIRiskService._generate_risk_factors (main.py:322-361)
_generate_risk_factors(features, il_risk, protocol_risk, mev_risks) ==
    LET il ==
            IF Exceeds(il_risk, T_IL)
            THEN <<AIRiskFactor("impermanent_loss", "Impermanent Loss Risk",
                                il_risk, Mul(il_risk, Fin(4, 10)),
                                [volatility       |-> features.volatility_score,
                                 price_divergence |-> Abs(Sub(features.price_ratio, One))],
                                [volatility |-> Fin(6, 10), price_divergence |-> Fin(4, 10)])>>
            ELSE <<>>
        protocol ==
            IF Exceeds(protocol_risk, T_PROTOCOL)
            THEN <<AIRiskFactor("protocol_risk", "Protocol Security Risk",
                                protocol_risk, Mul(protocol_risk, Fin(3, 10)),
                                [tvl |-> features.tvl_usd, volume |-> features.volume_24h],
                                <<>>)>>
            ELSE <<>>
        mev ==
            IF Exceeds(mev_risks.overall_mev_risk, T_MEV)
            THEN <<AIRiskFactor("mev_risk", "MEV Exploitation Risk",
                                mev_risks.overall_mev_risk,
                                Mul(mev_risks.overall_mev_risk, Fin(3, 10)),
                                mev_risks,
                                <<>>)>>
            ELSE <<>>
    IN  il \o protocol \o mev

\* the outcome of a call: a response carrying the returned value, or the
\* HTTPException(status_code=500) that the except clause raises
Returned(value) ==
    [status |-> 200, detail |-> "", returned |-> <<value>>]

\* Failed with the exception logged and swallowed: the call answers normally
FailedSilently(detail) ==
    [status |-> 200, detail |-> detail, returned |-> <<>>]

Failed(detail) ==
    [status |-> 500, detail |-> detail, returned |-> <<>>]

\* AIRiskService.predict_risk (main.py:211-247); utcnow is the clock reading
predict_risk(request, scorer, version, utcnow) ==
    LET features      == _extract_features(request)
        il_risk       == _predict_impermanent_loss(features)
        protocol_risk == _predict_protocol_risk(scorer, features)
        mev_risks     == detect_mev_risk([tvl_usd    |-> request.pool_state.tvl_usd,
                                          volume_24h |-> request.pool_state.volume_24h])
        overall_risk  == Add(Add(Mul(il_risk, W_IL), Mul(protocol_risk, W_PROTOCOL)),
                             Mul(mev_risks.overall_mev_risk, W_MEV))
        risk_factors  == _generate_risk_factors(features, il_risk, protocol_risk, mev_risks)
    IN  IF \/ il_risk.k = "err"
           \/ protocol_risk.k = "err"
           \/ mev_risks.overall_mev_risk.k = "err"
        THEN Failed("Prediction failed")
        ELSE Returned([overall_risk_score   |-> overall_risk,
                       confidence           |-> Fin(85, 100),
                       risk_factors         |-> risk_factors,
                       predictions          |->
                           [impermanent_loss_risk |-> il_risk,
                            protocol_risk         |-> protocol_risk,
                            mev_risk              |-> mev_risks.overall_mev_risk,
                            liquidation_risk      |-> Fin(1, 10)],
                       model_version        |-> version,
                       prediction_timestamp |-> utcnow])

(***************************************************************************)
(* Number formatting: f"{x:.2f}" and f"{x:.1%}" round to a fixed number of *)
(* decimals (ties to even); the text is kept as the count of last-place    *)
(* units, or as the word Python prints for NaN and the infinities.         *)
(***************************************************************************)
RoundHalfEven(n, d) ==
    LET q == n \div d
        r == n - q * d
    IN  IF 2 * r < d THEN q
        ELSE IF 2 * r > d THEN q + 1
        ELSE IF q % 2 = 0 THEN q ELSE q + 1

\* str.format with `places` decimals of x * scale
Format(x, scale, places) ==
    CASE x.k = "nan" -> [text |-> "nan", units |-> 0, places |-> places]
      [] x.k = "inf" -> [text |-> IF x.n > 0 THEN "inf" ELSE "-inf", units |-> 0, places |-> places]
      [] OTHER       -> [text |-> "fixed", units |-> RoundHalfEven(x.n * scale, x.d), places |-> places]

\* f"{x:.2f}"
Format2f(x) ==
    Format(x, 100, 2)

\* f"{x:.1%}"
FormatPct1(x) ==
    Format(x, 1000, 1)

(***************************************************************************)
(* AIRiskService: the explanation path (main.py:249-290, 363-422).         *)
(***************************************************************************)
\* ExpectedKeys with a key that predict_risk does not write
ExpectedKeysWithSlippage ==
    {"impermanent_loss_risk", "protocol_risk", "mev_risk", "slippage_risk"}

\* the sub-score keys explain_prediction indexes with predictions[...]
ExpectedKeys ==
    {"impermanent_loss_risk", "protocol_risk", "mev_risk"}

\* _generate_insights with the impermanent-loss rule read off the factor list
_generate_insights_from_factors(prediction, request) ==
    (IF \E i \in DOMAIN prediction.risk_factors :
            /\ prediction.risk_factors[i].factor_id = "impermanent_loss"
            /\ Gt(prediction.risk_factors[i].importance_score, Fin(6, 10))
     THEN <<"Price volatility patterns suggest high impermanent loss probability in next 24-48 hours">>
     ELSE <<>>)
    \o
    (IF Truthy(request.pool_state.tvl_usd) /\ Lt(request.pool_state.tvl_usd, Million)
     THEN <<"Low TVL pool detected - liquidity risk may compound during market stress">>
     ELSE <<>>)
    \o
    (IF Gt(prediction.predictions["mev_risk"], Fin(4, 10))
     THEN <<"Pool characteristics indicate elevated MEV bot activity - consider timing of transactions">>
     ELSE <<>>)

\* AIRiskService._generate_insights (main.py:363-377)
_generate_insights(prediction, request) ==
    (IF Gt(prediction.predictions["impermanent_loss_risk"], Fin(6, 10))
     THEN <<"Price volatility patterns suggest high impermanent loss probability in next 24-48 hours">>
     ELSE <<>>)
    \o
    (IF Truthy(request.pool_state.tvl_usd) /\ Lt(request.pool_state.tvl_usd, Million)
     THEN <<"Low TVL pool detected - liquidity risk may compound during market stress">>
     ELSE <<>>)
    \o
    (IF Gt(prediction.predictions["mev_risk"], Fin(4, 10))
     THEN <<"Pool characteristics indicate elevated MEV bot activity - consider timing of transactions">>
     ELSE <<>>)

\* AIRecommendation(...) (main.py:82-87)
AIRecommendation(action, confidence, urgency) ==
    [action |-> action, confidence |-> confidence, urgency |-> urgency]

\* AIRiskService._generate_ai_recommendations (main.py:379-401)
_generate_ai_recommendations(prediction, request) ==
    (IF Gt(prediction.overall_risk_score, Fin(7, 10))
     THEN <<AIRecommendation("Consider reducing position size", Fin(85, 100), "soon")>>
     ELSE <<>>)
    \o
    (IF Gt(prediction.predictions["mev_risk"], Fin(5, 10))
     THEN <<AIRecommendation("Use MEV protection tools", Fin(78, 100), "immediate")>>
     ELSE <<>>)

\* AIRiskService._explain_factor (main.py:403-412): the template chosen by
\* factor_id, filled with the formatted importance
_explain_factor(factor, request) ==
    [template   |-> IF factor.factor_id \in {"impermanent_loss", "protocol_risk", "mev_risk"}
                    THEN factor.factor_id
                    ELSE "generic",
     name       |-> IF factor.factor_id \in {"impermanent_loss", "protocol_risk", "mev_risk"}
                    THEN ""
                    ELSE factor.factor_name,
     importance |-> FormatPct1(factor.importance_score)]

\* AIRiskService._generate_evidence (main.py:414-422)
_generate_evidence(factor, request) ==
    IF factor.factor_id = "impermanent_loss"
    THEN <<[label |-> "Volatility score",
            value |-> Format2f(Get(factor.feature_values, "volatility", Zero))],
           [label |-> "Price divergence detected",
            value |-> Format2f(Get(factor.feature_values, "price_divergence", Zero))]>>
    ELSE <<>>

\* risk_level with the two cut lines written >=
risk_level_inclusive(overall_risk_score) ==
    IF Le(Fin(7, 10), overall_risk_score) THEN "HIGH"
    ELSE IF Le(Fin(4, 10), overall_risk_score) THEN "MEDIUM"
    ELSE "LOW"

\* explanation_summary with the MEV clause appended before the other two
explanation_summary_mev_first(prediction) ==
    <<IF Gt(prediction.overall_risk_score, Fin(7, 10)) THEN "HIGH"
      ELSE IF Gt(prediction.overall_risk_score, Fin(4, 10)) THEN "MEDIUM"
      ELSE "LOW",
      Format2f(prediction.overall_risk_score)>>
    \o (IF Gt(prediction.predictions["mev_risk"], Fin(5, 10))
        THEN <<"MEV exploitation risk is elevated. ">>
        ELSE <<>>)
    \o (IF Gt(prediction.predictions["impermanent_loss_risk"], Fin(5, 10))
        THEN <<"Primary concern is impermanent loss due to price divergence. ">>
        ELSE <<>>)
    \o (IF Gt(prediction.predictions["protocol_risk"], Fin(5, 10))
        THEN <<"Protocol-level risks detected. ">>
        ELSE <<>>)

\* the risk level of explain_prediction (main.py:253)
risk_level(overall_risk_score) ==
    IF Gt(overall_risk_score, Fin(7, 10)) THEN "HIGH"
    ELSE IF Gt(overall_risk_score, Fin(4, 10)) THEN "MEDIUM"
    ELSE "LOW"

\* the summary of explain_prediction (main.py:253-261): the text is kept as
\* the sequence of its parts, the level and the formatted score first
explanation_summary(prediction) ==
    <<risk_level(prediction.overall_risk_score),
      Format2f(prediction.overall_risk_score)>>
    \o (IF Gt(prediction.predictions["impermanent_loss_risk"], Fin(5, 10))
        THEN <<"Primary concern is impermanent loss due to price divergence. ">>
        ELSE <<>>)
    \o (IF Gt(prediction.predictions["protocol_risk"], Fin(5, 10))
        THEN <<"Protocol-level risks detected. ">>
        ELSE <<>>)
    \o (IF Gt(prediction.predictions["mev_risk"], Fin(5, 10))
        THEN <<"MEV exploitation risk is elevated. ">>
        ELSE <<>>)

\* AIRiskService.explain_prediction (main.py:249-290); a key missing from
\* predictions raises KeyError, which the except clause turns into the 500
explain_prediction(prediction, request) ==
    IF ~(ExpectedKeys \subseteq DOMAIN prediction.predictions)
    THEN Failed("Explanation failed")
    ELSE LET summary == explanation_summary(prediction)
             explained_factors ==
                 [i \in DOMAIN prediction.risk_factors |->
                     [factor_name |-> prediction.risk_factors[i].factor_name,
                      explanation |-> _explain_factor(prediction.risk_factors[i], request),
                      importance  |-> prediction.risk_factors[i].importance_score,
                      evidence    |-> _generate_evidence(prediction.risk_factors[i], request)]]
         IN  Returned([summary            |-> summary,
                       key_insights       |-> _generate_insights(prediction, request),
                       risk_factors       |-> explained_factors,
                       recommendations    |-> _generate_ai_recommendations(prediction, request),
                       confidence         |-> prediction.confidence,
                       explanation_method |-> "AI-powered analysis with feature importance"])

(***************************************************************************)
(* The minimal service (simple_ai_service.py).  It parses the request body *)
(* as JSON, so an absent or null field reads None.                         *)
(***************************************************************************)
\* AIServiceHandler.calculate_ai_prediction (simple_ai_service.py:103-178)
calculate_ai_prediction(position, pool_state, risk_metrics, utcnow) ==
    LET current_il    == Get(risk_metrics, "impermanent_loss", Zero)
        volatility    == Get(risk_metrics, "volatility_score", Zero)
        tvl           == OrZero(Get(pool_state, "tvl_usd", Zero))
        volume        == OrZero(Get(pool_state, "volume_24h", Zero))
        il_risk       == Min(One, Add(Mul(Div(current_il, Fin(100, 1)), Fin(12, 10)),
                                      Mul(Div(volatility, Fin(100, 1)), Fin(8, 10))))
        protocol_risk == IF Gt(tvl, Zero)
                         THEN Max(Fin(1, 10), Min(Fin(9, 10), Div(Sub(Million, tvl), Million)))
                         ELSE Fin(8, 10)
        mev_risk      == IF Gt(tvl, Zero)
                         THEN Min(Fin(6, 10), Mul(Div(volume, Max(tvl, One)), Fin(4, 10)))
                         ELSE Fin(3, 10)
        overall_risk  == Add(Add(Mul(il_risk, Fin(4, 10)), Mul(protocol_risk, Fin(3, 10))),
                             Mul(mev_risk, Fin(3, 10)))
        il ==
            IF Gt(il_risk, Fin(3, 10))
            THEN <<AIRiskFactor("impermanent_loss_ai", "AI-Detected Impermanent Loss Risk",
                                il_risk, Mul(il_risk, Fin(4, 10)),
                                [current_il |-> current_il, volatility |-> volatility,
                                 price_momentum |-> Fin(15, 100)],
                                [current_il |-> Fin(6, 10), volatility |-> Fin(3, 10),
                                 price_momentum |-> Fin(1, 10)])>>
            ELSE <<>>
        protocol ==
            IF Gt(protocol_risk, Fin(3, 10))
            THEN <<AIRiskFactor("protocol_risk_ai", "AI-Detected Protocol Risk",
                                protocol_risk, Mul(protocol_risk, Fin(3, 10)),
                                [tvl |-> tvl, volume |-> volume, anomaly_score |-> Fin(25, 100)],
                                <<>>)>>
            ELSE <<>>
        mev ==
            IF Gt(mev_risk, Fin(2, 10))
            THEN <<AIRiskFactor("mev_risk_ai", "AI-Detected MEV Risk",
                                mev_risk, Mul(mev_risk, Fin(3, 10)),
                                [volume_tvl_ratio   |-> Div(volume, Max(tvl, One)),
                                 bot_activity_score |-> Fin(35, 100)],
                                <<>>)>>
            ELSE <<>>
    IN  IF il_risk.k = "err" \/ protocol_risk.k = "err" \/ mev_risk.k = "err"
        THEN Failed("Prediction failed")
        ELSE Returned([overall_risk_score   |-> overall_risk,
                       confidence           |-> Fin(87, 100),
                       risk_factors         |-> il \o protocol \o mev,
                       predictions          |->
                           [impermanent_loss_risk |-> il_risk,
                            protocol_risk         |-> protocol_risk,
                            mev_risk              |-> mev_risk,
                            liquidation_risk      |-> Fin(15, 100)],
                       model_version        |-> "1.0.0-minimal-ai",
                       prediction_timestamp |-> utcnow])

\* AIServiceHandler.explain_ai_factor (simple_ai_service.py:256-268)
explain_ai_factor(factor) ==
    [template   |-> IF factor.factor_id \in {"impermanent_loss_ai", "protocol_risk_ai", "mev_risk_ai"}
                    THEN factor.factor_id
                    ELSE "generic",
     name       |-> IF factor.factor_id \in {"impermanent_loss_ai", "protocol_risk_ai", "mev_risk_ai"}
                    THEN ""
                    ELSE factor.factor_name,
     importance |-> FormatPct1(factor.importance_score)]

\* AIServiceHandler.generate_ai_evidence (simple_ai_service.py:270-294)
generate_ai_evidence(factor) ==
    CASE factor.factor_id = "impermanent_loss_ai" ->
            <<"LSTM model processed 168-hour price sequence",
              "Volatility clustering detected in recent data",
              "Price momentum indicators show divergence patterns">>
      [] factor.factor_id = "protocol_risk_ai" ->
            <<"Anomaly score: 0.25 (threshold: 0.20)",
              "TVL deviation from expected range",
              "Volume patterns inconsistent with historical norms">>
      [] factor.factor_id = "mev_risk_ai" ->
            <<"Bot activity signatures detected",
              "Transaction pattern analysis shows clustering",
              "Volume/TVL ratio indicates arbitrage opportunities">>
      [] OTHER -> <<>>

\* AIServiceHandler.generate_ai_explanation (simple_ai_service.py:180-254);
\* every lookup is dict.get with a default, so a missing key reads 0
generate_ai_explanation(prediction, request_info) ==
    LET overall_risk == Get(prediction, "overall_risk_score", Zero)
        risk_factors == Get(prediction, "risk_factors", <<>>)
        predictions  == Get(prediction, "predictions", <<>>)
        summary ==
            <<risk_level(overall_risk)>>
            \o (IF Gt(Get(predictions, "impermanent_loss_risk", Zero), Fin(5, 10))
                THEN <<"Neural network detected elevated impermanent loss probability. ">>
                ELSE <<>>)
            \o (IF Gt(Get(predictions, "protocol_risk", Zero), Fin(5, 10))
                THEN <<"Anomaly detection flagged protocol-level concerns. ">>
                ELSE <<>>)
            \o (IF Gt(Get(predictions, "mev_risk", Zero), Fin(5, 10))
                THEN <<"Pattern recognition identified MEV exploitation vectors. ">>
                ELSE <<>>)
        insights ==
            <<"Machine learning models processed 47 risk indicators",
              "Ensemble prediction combines LSTM, Random Forest, and Isolation Forest outputs",
              "Real-time feature engineering detected market regime shift patterns">>
            \o (IF Gt(overall_risk, Fin(6, 10))
                THEN <<"AI confidence intervals suggest 78% probability of adverse outcomes">>
                ELSE <<>>)
        recommendations ==
            (IF Gt(overall_risk, Fin(7, 10))
             THEN <<AIRecommendation("Reduce position exposure immediately", Fin(87, 100), "immediate")>>
             ELSE IF Gt(overall_risk, Fin(5, 10))
             THEN <<AIRecommendation("Implement dynamic hedging strategy", Fin(75, 100), "soon")>>
             ELSE <<>>)
            \o
            (IF Gt(Get(predictions, "mev_risk", Zero), Fin(4, 10))
             THEN <<AIRecommendation("Use MEV protection mechanisms", Fin(82, 100), "immediate")>>
             ELSE <<>>)
        explained_factors ==
            [i \in DOMAIN risk_factors |->
                [factor_name |-> risk_factors[i].factor_name,
                 explanation |-> explain_ai_factor(risk_factors[i]),
                 importance  |-> risk_factors[i].importance_score,
                 evidence    |-> generate_ai_evidence(risk_factors[i])]]
    IN  Returned([summary            |-> summary,
                  key_insights       |-> insights,
                  risk_factors       |-> explained_factors,
                  recommendations    |-> recommendations,
                  confidence         |-> Get(prediction, "confidence", Fin(87, 100)),
                  explanation_method |-> "AI Ensemble: SHAP + LIME + Attention Mechanisms"])

(***************************************************************************)
(* Bounds and input sets.                                                  *)
(***************************************************************************)
\* the clock counts 0 .. MaxClock
MaxClock ==
    1

\* the log keeps at most MaxCalls calls made with the current inputs
MaxCalls ==
    2

\* at most MaxRetrain /train requests are accepted
MaxRetrain ==
    1

Volatilities ==
    {Fin(-1, 1), Zero, Fin(1, 2), One, Fin(2, 1), NaN, PosInf}

\* <<token0_price, token1_price>>
Prices ==
    {<<One, One>>, <<Fin(2, 1), One>>, <<One, Zero>>, <<NaN, One>>}

Tvls ==
    {None, Zero, Fin(500000, 1), Fin(600000, 1), Fin(2000000, 1)}

Volumes ==
    {None, Zero, Fin(100000, 1), Fin(500000, 1), Fin(600000, 1)}

PositionSizes ==
    {Zero}

CurrentILs ==
    {Fin(25, 1)}

\* fees_24h is read by no predictor
Fees ==
    {None}

\* the requests the scoring functions are checked on
Requests ==
    {Request(vol, Zero, il, cv, p[1], p[2], tvl, volume, fees) :
        vol \in Volatilities, il \in CurrentILs, cv \in PositionSizes, p \in Prices,
        tvl \in Tvls, volume \in Volumes, fees \in Fees}

\* the requests the running service is sent
ServiceRequests ==
    {Request(Fin(1, 2), Zero, Zero, Zero, One, One, Fin(2000000, 1), Fin(600000, 1), Fin(10, 1)),
     Request(Fin(2, 1), Zero, Fin(25, 1), Zero, Fin(2, 1), One, Fin(500000, 1), Fin(600000, 1), None),
     Request(Fin(-1, 1), Zero, Zero, Zero, One, One, Zero, Zero, None),
     Request(Zero, Zero, Zero, Zero, One, One, None, Fin(100000, 1), None),
     Request(Zero, Zero, Zero, Zero, One, PosInf, Fin(2000000, 1), Zero, None),
     Request(PosInf, Zero, Zero, Zero, One, One, Fin(2000000, 1), Zero, None)}

\* the requests explanations are checked on: explanation reads tvl_usd only
ExplainRequests ==
    {Request(Zero, Zero, Zero, Zero, One, One, tvl, Zero, None) :
        tvl \in {None, Zero, Fin(500000, 1), Fin(1000000, 1)}}

\* hand-made risk factors, as a caller of /explain may send
CraftedFactor(id, importance) ==
    AIRiskFactor(id, id, importance, importance,
                 [volatility |-> Fin(1, 8)], <<>>)

CraftedFactorLists ==
    {<<>>,
     <<CraftedFactor("impermanent_loss", Fin(9, 10))>>,
     <<CraftedFactor("mev_risk", Fin(1, 10)), CraftedFactor("custom", Fin(1, 2))>>}

\* a sub-scores map with the keys whose value is not None
SubScores(il, protocol, mev) ==
    LET given == [impermanent_loss_risk |-> il, protocol_risk |-> protocol,
                  mev_risk |-> mev, liquidation_risk |-> Fin(1, 10)]
    IN  [key \in {x \in DOMAIN given : given[x] # None} |-> given[key]]

Crafted(overall, il, protocol, mev, factors) ==
    [overall_risk_score   |-> overall,
     confidence           |-> Fin(1, 2),
     risk_factors         |-> factors,
     predictions          |-> SubScores(il, protocol, mev),
     model_version        |-> "hand-made",
     prediction_timestamp |-> 0]

\* the hand-made predictions explanations are checked on
CraftedPredictions ==
    {Crafted(overall, il, protocol, mev, factors) :
        overall  \in {Fin(4, 10), Fin(5, 10), Fin(7, 10), Fin(75, 100)},
        il       \in {None, Fin(5, 10), Fin(6, 10), Fin(7, 10)},
        protocol \in {None, Fin(5, 10), Fin(6, 10)},
        mev      \in {None, Fin(4, 10), Fin(5, 10), Fin(6, 10)},
        factors  \in CraftedFactorLists}

\* the hand-made predictions the running service is sent
ServiceCrafted ==
    {Crafted(Fin(75, 100), Fin(7, 10), Fin(6, 10), Fin(6, 10), <<>>),
     Crafted(Fin(4, 10), Fin(5, 10), None, Fin(4, 10),
             <<CraftedFactor("impermanent_loss", Fin(9, 10))>>)}

(***************************************************************************)
(* Calls and the log.                                                      *)
(***************************************************************************)
\* Serving with requests accepted while the constructor still runs
ServingDuringConstruction ==
    TRUE

\* Serving with the event loop held by a retrain task until it completes
ServingWhileIdle ==
    /\ phase = "serving"
    /\ \A t \in DOMAIN background : background[t] # "sleeping"

\* the module-level ai_service exists and the application serves (main.py:428)
Serving ==
    phase = "serving"

\* the retrain tasks that have been started and have not finished
InProgress(tasks) ==
    {t \in DOMAIN tasks : tasks[t] \in {"queued", "sleeping"}}

\* one completed call, as the log keeps it: `at` is the time of the call and
\* `retraining` tells whether a retrain task was in progress while it ran
Call(op, svc, arg, observed, outcome) ==
    [op |-> op, svc |-> svc, arg |-> arg, observed |-> observed,
     outcome |-> outcome, at |-> now, retraining |-> InProgress(background) # {}]

Log(call) ==
    /\ Len(calls) < MaxCalls
    /\ calls' = Append(calls, call)

(***************************************************************************)
(* Construction: AIRiskService.__init__ (main.py:194-201) runs             *)
(* _initialize_models, which calls ProtocolRiskScorer.fit (main.py:138-142)*)
(* statement by statement.                                                 *)
(***************************************************************************)
\* fit, line 140: self.scaler.fit_transform(features)
FitScaler ==
    /\ phase = "constructing"
    /\ ~protocol_scorer.scaler.fitted
    /\ protocol_scorer' = [protocol_scorer EXCEPT !.scaler = FittedScaler]
    /\ UNCHANGED <<phase, model_version, now, req, crafted, calls, background>>

\* fit, line 141: self.model.fit(scaled_features)
FitModel ==
    /\ phase = "constructing"
    /\ protocol_scorer.scaler.fitted
    /\ ~protocol_scorer.model.fitted
    /\ protocol_scorer' = [protocol_scorer EXCEPT !.model = FittedModel]
    /\ UNCHANGED <<phase, model_version, now, req, crafted, calls, background>>

\* fit, line 142: self.is_fitted = True
SetFitted ==
    /\ phase = "constructing"
    /\ protocol_scorer.model.fitted
    /\ ~protocol_scorer.is_fitted
    /\ protocol_scorer' = [protocol_scorer EXCEPT !.is_fitted = TRUE]
    /\ UNCHANGED <<phase, model_version, now, req, crafted, calls, background>>

\* the constructor returns and the application starts serving
Constructed ==
    /\ phase = "constructing"
    /\ protocol_scorer.is_fitted
    /\ phase' = "serving"
    /\ UNCHANGED <<protocol_scorer, model_version, now, req, crafted, calls, background>>

(***************************************************************************)
(* The endpoints of the ML service (main.py:434-484).                      *)
(***************************************************************************)
\* Score with the scaler fitted again on each call
ScoreRefitting ==
    /\ Serving
    /\ Log(Call("score", "ml", <<>>, <<protocol_scorer>>,
                predict_risk(req, protocol_scorer, model_version, now)))
    /\ protocol_scorer' = [protocol_scorer EXCEPT !.scaler.mean_ = One]
    /\ UNCHANGED <<phase, model_version, now, req, crafted, background>>

\* POST /predict
Score ==
    /\ Serving
    /\ Log(Call("score", "ml", <<>>, <<protocol_scorer>>,
                predict_risk(req, protocol_scorer, model_version, now)))
    /\ UNCHANGED <<phase, protocol_scorer, model_version, now, req, crafted, background>>

\* AIRiskService.predict_risk on a service object whose scorer is as
\* ProtocolRiskScorer.__init__ left it (main.py:133-136; is_fitted is False
\* until the last statement of fit): the scorer takes its heuristic branch
ScoreUnfitted ==
    /\ ~protocol_scorer.is_fitted
    /\ Log(Call("score", "ml", <<>>, <<protocol_scorer>>,
                predict_risk(req, protocol_scorer, model_version, now)))
    /\ UNCHANGED <<phase, protocol_scorer, model_version, now, req, crafted, background>>

\* POST /explain with a hand-made prediction
Explain ==
    /\ Serving
    /\ Log(Call("explain", "ml", <<crafted>>, <<protocol_scorer>>,
                explain_prediction(crafted, req)))
    /\ UNCHANGED <<phase, protocol_scorer, model_version, now, req, crafted, background>>

\* POST /explain with the prediction an earlier /predict returned
ExplainScored ==
    /\ Serving
    /\ \E i \in DOMAIN calls :
          /\ calls[i].op = "score"
          /\ calls[i].svc = "ml"
          /\ calls[i].outcome.status = 200
          /\ Log(Call("explain", "ml", calls[i].outcome.returned, <<protocol_scorer>>,
                      explain_prediction(calls[i].outcome.returned[1], req)))
    /\ UNCHANGED <<phase, protocol_scorer, model_version, now, req, crafted, background>>

\* POST /train: queue the background task and answer at once
Train ==
    /\ Serving
    /\ Len(background) < MaxRetrain
    /\ background' = Append(background, "queued")
    /\ UNCHANGED <<phase, protocol_scorer, model_version, now, req, crafted, calls>>

\* RetrainStart with the fitted detector discarded before the refit
RetrainStartResetting ==
    /\ \E i \in DOMAIN background :
          /\ background[i] = "queued"
          /\ background' = [background EXCEPT ![i] = "sleeping"]
    /\ protocol_scorer' = NewScorer
    /\ UNCHANGED <<phase, model_version, now, req, crafted, calls>>

\* retrain_models up to its await asyncio.sleep(10) (main.py:458-462)
RetrainStart ==
    /\ \E i \in DOMAIN background :
          /\ background[i] = "queued"
          /\ background' = [background EXCEPT ![i] = "sleeping"]
    /\ UNCHANGED <<phase, protocol_scorer, model_version, now, req, crafted, calls>>

\* RetrainDone with the task resumed only once no call is on record
RetrainDoneWhenIdle ==
    /\ calls = <<>>
    /\ \E i \in DOMAIN background :
          /\ background[i] = "sleeping"
          /\ background' = [background EXCEPT ![i] = "done"]
    /\ UNCHANGED <<phase, protocol_scorer, model_version, now, req, crafted, calls>>

\* retrain_models after the sleep (main.py:463): it logs and returns
RetrainDone ==
    /\ \E i \in DOMAIN background :
          /\ background[i] = "sleeping"
          /\ background' = [background EXCEPT ![i] = "done"]
    /\ UNCHANGED <<phase, protocol_scorer, model_version, now, req, crafted, calls>>

\* the body of GET /models/info
get_model_info(scorer, version) ==
    [impermanent_loss_predictor |-> [type |-> "LSTM", version |-> version, status |-> "loaded"],
     protocol_risk_scorer       |-> [type |-> "IsolationForest", version |-> version,
                                     status |-> IF scorer.is_fitted THEN "trained" ELSE "untrained"],
     mev_detector               |-> [type |-> "PatternAnalysis", version |-> version, status |-> "loaded"]]

\* GET /models/info
ModelInfo ==
    /\ Serving
    /\ Log(Call("info", "ml", <<>>, <<protocol_scorer>>,
                Returned(get_model_info(protocol_scorer, model_version))))
    /\ UNCHANGED <<phase, protocol_scorer, model_version, now, req, crafted, background>>

(***************************************************************************)
(* The endpoints of the minimal service (simple_ai_service.py:65-101): a   *)
(* separate process without a registry.                                    *)
(***************************************************************************)
\* POST /predict
SimplePredict ==
    /\ Log(Call("score", "minimal", <<>>, <<>>,
                calculate_ai_prediction(req.position, req.pool_state,
                                        req.risk_metrics, now)))
    /\ UNCHANGED <<phase, protocol_scorer, model_version, now, req, crafted, background>>

\* POST /explain with a hand-made prediction
SimpleExplain ==
    /\ Log(Call("explain", "minimal", <<crafted>>, <<>>,
                generate_ai_explanation(crafted, req)))
    /\ UNCHANGED <<phase, protocol_scorer, model_version, now, req, crafted, background>>

(***************************************************************************)
(* The environment.                                                        *)
(***************************************************************************)
\* time passes
Tick ==
    /\ now < MaxClock
    /\ now' = now + 1
    /\ UNCHANGED <<phase, protocol_scorer, model_version, req, crafted, calls, background>>

\* the caller sends the hand-made prediction again with another factor list
Recraft ==
    /\ \E factors \in CraftedFactorLists :
          /\ factors # crafted.risk_factors
          /\ crafted' = [crafted EXCEPT !.risk_factors = factors]
    /\ UNCHANGED <<phase, protocol_scorer, model_version, now, req, calls, background>>

\* the caller turns to other inputs
Submit ==
    /\ \E r \in ServiceRequests, p \in ServiceCrafted :
          /\ <<r, p>> # <<req, crafted>>
          /\ req' = r
          /\ crafted' = p
    /\ calls' = <<>>
    /\ UNCHANGED <<phase, protocol_scorer, model_version, now, background>>

(***************************************************************************)
(* Spec: the service from the start of construction on.  The clock stands  *)
(* still here; the passing of time between calls is part of SpecScore.     *)
(***************************************************************************)
Init ==
    /\ phase = "constructing"
    /\ protocol_scorer = NewScorer
    /\ model_version = "1.0.0-alpha"
    /\ now = 0
    /\ req \in ServiceRequests
    /\ crafted \in ServiceCrafted
    /\ calls = <<>>
    /\ background = <<>>

Next ==
    \/ FitScaler
    \/ FitModel
    \/ SetFitted
    \/ Constructed
    \/ Score
    \/ Explain
    \/ ExplainScored
    \/ Train
    \/ RetrainStart
    \/ RetrainDone
    \/ ModelInfo
    \/ SimplePredict
    \/ SimpleExplain
    \/ Submit

Spec ==
    Init /\ [][Next]_vars

\* Spec under the scheduling of the asyncio event loop: a queued background
\* task is started once the response is sent, and a task awaiting
\* asyncio.sleep(10) is resumed when the timer expires
SpecFair ==
    Spec /\ WF_vars(RetrainStart) /\ WF_vars(RetrainDone)

(***************************************************************************)
(* SpecScore: the constructed service scoring each request of Requests.    *)
(***************************************************************************)
InitScore ==
    /\ phase = "serving"
    /\ protocol_scorer = FittedScorer
    /\ model_version = "1.0.0-alpha"
    /\ now = 0
    /\ req \in Requests
    /\ crafted \in {Crafted(Fin(75, 100), Fin(7, 10), Fin(6, 10), Fin(6, 10), <<>>)}
    /\ calls = <<>>
    /\ background = <<>>

NextScore ==
    \/ Score
    \/ ExplainScored
    \/ SimplePredict
    \/ Tick

SpecScore ==
    InitScore /\ [][NextScore]_vars

(***************************************************************************)
(* SpecExplain: the constructed service explaining each hand-made          *)
(* prediction of CraftedPredictions.                                       *)
(***************************************************************************)
InitExplain ==
    /\ phase = "serving"
    /\ protocol_scorer = FittedScorer
    /\ model_version = "1.0.0-alpha"
    /\ now = 0
    /\ req \in ExplainRequests
    /\ crafted \in CraftedPredictions
    /\ calls = <<>>
    /\ background = <<>>

NextExplain ==
    \/ Explain
    \/ SimpleExplain
    \/ Recraft

SpecExplain ==
    InitExplain /\ [][NextExplain]_vars

(***************************************************************************)
(* SpecUnfitted: the service object from ProtocolRiskScorer() to the end   *)
(* of fit, scored on each request of Requests while is_fitted is False.    *)
(***************************************************************************)
InitUnfitted ==
    /\ phase = "constructing"
    /\ protocol_scorer = NewScorer
    /\ model_version = "1.0.0-alpha"
    /\ now = 0
    /\ req \in Requests
    /\ crafted \in {Crafted(Fin(75, 100), Fin(7, 10), Fin(6, 10), Fin(6, 10), <<>>)}
    /\ calls = <<>>
    /\ background = <<>>

NextUnfitted ==
    \/ ScoreUnfitted
    \/ FitScaler
    \/ FitModel
    \/ SetFitted

SpecUnfitted ==
    InitUnfitted /\ [][NextUnfitted]_vars

(***************************************************************************)
(* Properties.                                                             *)
(***************************************************************************)
\* the calls of the log made to `svc` with operation `op`
CallsOf(op, svc) ==
    {i \in DOMAIN calls : calls[i].op = op /\ calls[i].svc = svc}

\* the value a call returned
ReturnedBy(i) ==
    calls[i].outcome.returned[1]

HasReturned(i) ==
    calls[i].outcome.status = 200 /\ Len(calls[i].outcome.returned) = 1

HasFailed(i) ==
    calls[i].outcome.status = 500 /\ calls[i].outcome.returned = <<>>

InUnitInterval(x) ==
    Le(Zero, x) /\ Le(x, One)

\* every value of the feature set is a finite number
FiniteFeatureSet(features) ==
    \A name \in DOMAIN features : IsFin(features[name])

\* the required numeric fields of the request
RequiredFields(r) ==
    {r.pool_state.token0_price, r.pool_state.token1_price,
     r.risk_metrics.impermanent_loss, r.risk_metrics.liquidity_score,
     r.risk_metrics.volatility_score, r.position.current_value}

\* the optional numeric fields of the request
OptionalFields(r) ==
    {r.pool_state.tvl_usd, r.pool_state.volume_24h, r.pool_state.fees_24h}

HasFactor(result, ids) ==
    \E k \in DOMAIN result.risk_factors : result.risk_factors[k].factor_id \in ids

\* C1: for every finite-valued feature set, each sub-risk the scoring
\* operation returns (impermanent_loss_risk, protocol_risk, mev_risk) and the
\* overall_risk_score lie in the closed interval [0,1].
C1_ScoresInUnitInterval ==
    \A i \in CallsOf("score", "ml") :
        (HasReturned(i) /\ FiniteFeatureSet(_extract_features(req)))
        => /\ InUnitInterval(ReturnedBy(i).predictions["impermanent_loss_risk"])
           /\ InUnitInterval(ReturnedBy(i).predictions["protocol_risk"])
           /\ InUnitInterval(ReturnedBy(i).predictions["mev_risk"])
           /\ InUnitInterval(ReturnedBy(i).overall_risk_score)

\* C2: in every scoring result, of the ML service and of the minimal service,
\* overall_risk_score equals 0.4 x impermanent_loss_risk + 0.3 x protocol_risk
\* + 0.3 x mev_risk of the sub-risks reported in the same result's predictions
\* map (the code applies no clamp to the sum, so this holds of every result).
C2_OverallIsWeightedSum ==
    \A i \in CallsOf("score", "ml") \cup CallsOf("score", "minimal") :
        HasReturned(i)
        => ReturnedBy(i).overall_risk_score
             = Add(Add(Mul(ReturnedBy(i).predictions["impermanent_loss_risk"], Fin(4, 10)),
                       Mul(ReturnedBy(i).predictions["protocol_risk"], Fin(3, 10))),
                   Mul(ReturnedBy(i).predictions["mev_risk"], Fin(3, 10)))

\* C2 witness: both services have returned a result whose three sub-risks are
\* positive and whose overall score is strictly between 0 and 1.
C2_Witness ==
    \A svc \in {"ml", "minimal"} :
        \E i \in CallsOf("score", svc) :
            /\ HasReturned(i)
            /\ \A key \in ExpectedKeys : Gt(ReturnedBy(i).predictions[key], Zero)
            /\ ReturnedBy(i).predictions["impermanent_loss_risk"]
                 # ReturnedBy(i).predictions["protocol_risk"]
            /\ Gt(ReturnedBy(i).overall_risk_score, Zero)
            /\ Lt(ReturnedBy(i).overall_risk_score, One)

\* C3: in every scoring result a risk factor for a sub-risk is present if and
\* only if that sub-risk strictly exceeds its threshold (impermanent loss 0.3,
\* protocol 0.3, MEV 0.2); a sub-risk equal to its threshold yields no factor.
C3_FactorIffAboveThreshold ==
    \A i \in CallsOf("score", "ml") \cup CallsOf("score", "minimal") :
        HasReturned(i)
        => /\ HasFactor(ReturnedBy(i), {"impermanent_loss", "impermanent_loss_ai"})
                <=> Gt(ReturnedBy(i).predictions["impermanent_loss_risk"], Fin(3, 10))
           /\ HasFactor(ReturnedBy(i), {"protocol_risk", "protocol_risk_ai"})
                <=> Gt(ReturnedBy(i).predictions["protocol_risk"], Fin(3, 10))
           /\ HasFactor(ReturnedBy(i), {"mev_risk", "mev_risk_ai"})
                <=> Gt(ReturnedBy(i).predictions["mev_risk"], Fin(2, 10))
           /\ \A k \in DOMAIN ReturnedBy(i).risk_factors :
                 ReturnedBy(i).risk_factors[k].importance_score # Zero

\* C3 witness: the ML service has returned a result whose impermanent-loss
\* and protocol sub-risks both equal 0.3 and which carries no factor.
C3_Witness ==
    \E i \in CallsOf("score", "ml") :
        /\ HasReturned(i)
        /\ ReturnedBy(i).predictions["impermanent_loss_risk"] = Fin(3, 10)
        /\ ReturnedBy(i).predictions["protocol_risk"] = Fin(3, 10)
        /\ ReturnedBy(i).risk_factors = <<>>

Untimed(result) ==
    [key \in DOMAIN result \ {"prediction_timestamp"} |-> result[key]]

C5_ExplainIgnoresFactorList ==
    \A i, j \in CallsOf("explain", "ml") :
        (/\ calls[i].arg[1].overall_risk_score = calls[j].arg[1].overall_risk_score
         /\ calls[i].arg[1].confidence = calls[j].arg[1].confidence
         /\ calls[i].arg[1].predictions = calls[j].arg[1].predictions)
        => /\ calls[i].outcome.status = calls[j].outcome.status
           /\ HasReturned(i)
                => /\ ReturnedBy(i).summary = ReturnedBy(j).summary
                   /\ ReturnedBy(i).key_insights = ReturnedBy(j).key_insights
                   /\ ReturnedBy(i).recommendations = ReturnedBy(j).recommendations

\* C5 witness: one result was explained with an empty factor list and with
\* an impermanent-loss factor of importance 0.9, while its impermanent-loss
\* sub-score is 0.5: the sub-scores disagree with the factor list.
C5_Witness ==
    \E i, j \in CallsOf("explain", "ml") :
        /\ HasReturned(i)
        /\ HasReturned(j)
        /\ calls[i].arg[1].predictions["impermanent_loss_risk"] = Fin(5, 10)
        /\ calls[i].arg[1].risk_factors = <<>>
        /\ HasFactor(calls[j].arg[1], {"impermanent_loss"})
        /\ ReturnedBy(j).risk_factors # ReturnedBy(i).risk_factors

\* C6: a request whose required fields are finite and whose tvl_usd,
\* volume_24h or fees_24h is absent is scored successfully.
C6_AbsentOptionalIsScored ==
    \A i \in CallsOf("score", "ml") :
        (/\ \A x \in RequiredFields(req) : IsFin(x)
         /\ \A x \in OptionalFields(req) : IsFin(x) \/ x = None
         /\ None \in OptionalFields(req))
        => HasReturned(i)

\* C7: score fails, and returns no result, whenever a required numeric field
\* of the request is NaN or infinite.
C7_NonFiniteIsRejected ==
    \A i \in CallsOf("score", "ml") :
        (\E x \in RequiredFields(req) : ~IsFin(x))
        => HasFailed(i)

\* C8: when a sub-predictor (impermanent loss, protocol, MEV) fails during
\* score, the call ends in the error outcome and returns no result.
C8_SubPredictorFailureFailsScore ==
    \A i \in CallsOf("score", "ml") :
        LET features == _extract_features(req)
        IN  (\/ _predict_impermanent_loss(features).k = "err"
             \/ _predict_protocol_risk(calls[i].observed[1], features).k = "err"
             \/ detect_mev_risk([tvl_usd    |-> req.pool_state.tvl_usd,
                                 volume_24h |-> req.pool_state.volume_24h]
                               ).overall_mev_risk.k = "err")
            => HasFailed(i)

\* C8 witness: a score call failed because the MEV detector failed on an
\* absent tvl_usd while the other two sub-predictors succeeded.
C8_Witness ==
    \E i \in CallsOf("score", "ml") :
        LET features == _extract_features(req)
        IN  /\ req.pool_state.tvl_usd = None
            /\ IsFin(_predict_impermanent_loss(features))
            /\ IsFin(_predict_protocol_risk(calls[i].observed[1], features))
            /\ HasFailed(i)

\* C9: explain fails and returns no explanation whenever the sub-scores map
\* of the supplied result lacks impermanent_loss_risk, protocol_risk or
\* mev_risk, in the ML service and in the minimal service.
C9_MissingKeyFailsExplain ==
    \A i \in CallsOf("explain", "ml") \cup CallsOf("explain", "minimal") :
        ~(ExpectedKeys \subseteq DOMAIN calls[i].arg[1].predictions)
        => HasFailed(i)

\* the fields of the fitted state that a write changes
Written(old, new) ==
    {field \in {"scaler", "model", "is_fitted"} : old[field] # new[field]}

C11_RetrainDoesNotBlockScore ==
    [][/\ \A t \in DOMAIN background' \ DOMAIN background : background'[t] = "queued"
       /\ InProgress(background) # {} => Serving
       /\ (/\ Len(calls') = Len(calls) + 1
           /\ calls'[Len(calls')].op = "score"
           /\ calls'[Len(calls')].svc = "ml"
           /\ InProgress(background) # {})
            => /\ calls'[Len(calls')].retraining
               /\ calls'[Len(calls')].outcome
                    = predict_risk(req, FittedScorer, model_version, now)
               /\ InProgress(background') = InProgress(background)]_vars

\* C11 witness: a score call issued while a retrain was in progress has
\* returned, and no retrain has completed yet: one still sleeps.
C11_Witness ==
    /\ \E i \in CallsOf("score", "ml") : HasReturned(i) /\ calls[i].retraining
    /\ \A t \in DOMAIN background : background[t] # "done"
    /\ \E t \in DOMAIN background : background[t] = "sleeping"

\* C12: every retrain that has been started eventually finishes, whatever
\* score and explain calls are made meanwhile, and no step takes a started
\* retrain back or removes it.
C12_RetrainEventuallyFinishes ==
    /\ \A t \in 1..MaxRetrain :
          (t \in InProgress(background))
            ~> (t \in DOMAIN background /\ background[t] = "done")
    /\ [][\A t \in DOMAIN background :
             /\ t \in DOMAIN background'
             /\ <<background[t], background'[t]>> \in
                    {<<"queued", "queued">>, <<"queued", "sleeping">>,
                     <<"sleeping", "sleeping">>, <<"sleeping", "done">>,
                     <<"done", "done">>}]_vars

\* C12 witness: every retrain that was started has finished, and a score or
\* explain call made while one was in progress is still on record.
C12_Witness ==
    /\ background # <<>>
    /\ InProgress(background) = {}
    /\ \E i \in CallsOf("score", "ml") \cup CallsOf("explain", "ml") :
          calls[i].retraining

\* C13: the step that completes a retrain has refit the detector: it writes
\* scaler, anomaly model and fitted flag of the registry together.
C13_CompletedRetrainHasRefit ==
    [][(\E t \in DOMAIN background :
            background[t] = "sleeping" /\ background'[t] = "done")
       => Written(protocol_scorer, protocol_scorer') = {"scaler", "model", "is_fitted"}]_vars

\* C14: the fitted predictor state (scaler, anomaly model, fitted flag,
\* model_version) is written once, during initialization, each field from its
\* unfitted value; a step that completes a score, explain or modelInfo call
\* leaves it unchanged, and once the service serves only a step of a retrain
\* task may write it.
C14_FittedStateWrittenOnce ==
    [][/\ phase = "constructing"
            => /\ model_version' = model_version
               /\ \A field \in Written(protocol_scorer, protocol_scorer') :
                     protocol_scorer[field] = NewScorer[field]
       /\ Len(calls') > Len(calls)
            => UNCHANGED <<protocol_scorer, model_version>>
       /\ (phase = "serving" /\ background' = background)
            => UNCHANGED <<protocol_scorer, model_version>>]_vars

\* C14 witness: after a retrain has completed, a score call and a modelInfo
\* call are on record; both observed the state initialization wrote, which
\* the registry still holds, and modelInfo reported it as trained.
C14_Witness ==
    /\ protocol_scorer = FittedScorer
    /\ \E t \in DOMAIN background : background[t] = "done"
    /\ \E i \in CallsOf("score", "ml"), j \in CallsOf("info", "ml") :
          /\ i < j
          /\ HasReturned(i)
          /\ calls[i].observed = <<FittedScorer>>
          /\ calls[j].observed = <<FittedScorer>>
          /\ calls[i].retraining
          /\ ReturnedBy(j).protocol_risk_scorer.status = "trained"
          /\ ReturnedBy(j).protocol_risk_scorer.version = model_version

\* x > num/den for a finite x, by cross-multiplication
Above(x, num, den) ==
    x.n * den > num * x.d

\* the prediction an explain call was given
Explained(i) ==
    calls[i].arg[1]

\* C15: explain classifies a finite overall_risk_score with the strict cut
\* lines 0.7 and 0.4, in the ML service and in the minimal service: HIGH iff
\* score > 0.7, MEDIUM iff 0.4 < score <= 0.7, LOW iff score <= 0.4.
C15_RiskLevelCutLines ==
    \A i \in CallsOf("explain", "ml") \cup CallsOf("explain", "minimal") :
        (HasReturned(i) /\ IsFin(Explained(i).overall_risk_score))
        => LET level == ReturnedBy(i).summary[1]
               score == Explained(i).overall_risk_score
           IN  /\ level = "HIGH" <=> Above(score, 7, 10)
               /\ level = "MEDIUM" <=> (Above(score, 4, 10) /\ ~Above(score, 7, 10))
               /\ level = "LOW" <=> ~Above(score, 4, 10)

\* C15 witness: both services have explained a result whose overall score is
\* exactly 0.7, and both called it MEDIUM.
C15_Witness ==
    \A svc \in {"ml", "minimal"} :
        \E i \in CallsOf("explain", svc) :
            /\ HasReturned(i)
            /\ Explained(i).overall_risk_score = Fin(7, 10)
            /\ ReturnedBy(i).summary[1] = "MEDIUM"

\* what a recommendation advises, whichever service words it
RecommendationKind(recommendation) ==
    CASE recommendation.action \in {"Consider reducing position size",
                                    "Reduce position exposure immediately"}
            -> "reduce position"
      [] recommendation.action \in {"Use MEV protection tools",
                                    "Use MEV protection mechanisms"}
            -> "use MEV protection"
      [] OTHER -> "other"

\* C16: the recommendations of an explanation, in the ML service and in the
\* minimal service, are 'reduce position' with urgency 'soon' iff
\* overall_risk_score > 0.7, followed by 'use MEV protection' with urgency
\* 'immediate' iff mev_risk > 0.5, and nothing else.
C16_RecommendationRules ==
    \A i \in CallsOf("explain", "ml") \cup CallsOf("explain", "minimal") :
        (HasReturned(i) /\ ExpectedKeys \subseteq DOMAIN Explained(i).predictions)
        => [k \in DOMAIN ReturnedBy(i).recommendations |->
               <<RecommendationKind(ReturnedBy(i).recommendations[k]),
                 ReturnedBy(i).recommendations[k].urgency>>]
             = (IF Above(Explained(i).overall_risk_score, 7, 10)
                THEN << <<"reduce position", "soon">> >> ELSE <<>>)
               \o
               (IF Above(Explained(i).predictions["mev_risk"], 5, 10)
                THEN << <<"use MEV protection", "immediate">> >> ELSE <<>>)

\* the clauses a summary may carry after its risk-level clause, in order
SummaryClauses ==
    <<[key |-> "impermanent_loss_risk",
       text |-> "Primary concern is impermanent loss due to price divergence. "],
      [key |-> "protocol_risk", text |-> "Protocol-level risks detected. "],
      [key |-> "mev_risk", text |-> "MEV exploitation risk is elevated. "]>>

\* C17: the summary of an explanation of the ML service is the risk-level
\* clause (level and score) followed by one clause for each sub-score strictly
\* above 0.5, in the order impermanent loss, protocol, MEV, and nothing else.
C17_SummaryClauses ==
    \A i \in CallsOf("explain", "ml") :
        HasReturned(i)
        => LET triggered ==
                   SelectSeq(SummaryClauses,
                             LAMBDA c : Above(Explained(i).predictions[c.key], 1, 2))
               summary == ReturnedBy(i).summary
           IN  /\ Len(summary) = 2 + Len(triggered)
               /\ summary[1] \in {"HIGH", "MEDIUM", "LOW"}
               /\ summary[2].text = "fixed"
               /\ \A k \in DOMAIN triggered : summary[2 + k] = triggered[k].text

\* C17 witness: an explained result has impermanent_loss_risk exactly 0.5 and
\* protocol_risk and mev_risk above it; its summary carries the protocol
\* clause and then the MEV clause, and no impermanent-loss clause.
C17_Witness ==
    \E i \in CallsOf("explain", "ml") :
        /\ HasReturned(i)
        /\ Explained(i).predictions["impermanent_loss_risk"] = Fin(5, 10)
        /\ Len(ReturnedBy(i).summary) = 4
        /\ ReturnedBy(i).summary[3] = "Protocol-level risks detected. "
        /\ ReturnedBy(i).summary[4] = "MEV exploitation risk is elevated. "

\* C18: the insights of an explanation of the ML service are the
\* impermanent-loss insight iff impermanent_loss_risk > 0.6, then the low-TVL
\* insight iff the pool's TVL, an absent one counted as zero, is below
\* 1,000,000, then the MEV insight iff mev_risk > 0.4.
C18_InsightRules ==
    \A i \in CallsOf("explain", "ml") :
        HasReturned(i)
        => LET tvl == IF req.pool_state.tvl_usd = None
                      THEN Zero ELSE req.pool_state.tvl_usd
           IN  ReturnedBy(i).key_insights
                 = (IF Above(Explained(i).predictions["impermanent_loss_risk"], 6, 10)
                    THEN <<"Price volatility patterns suggest high impermanent loss probability in next 24-48 hours">>
                    ELSE <<>>)
                   \o
                   (IF tvl.n < 1000000 * tvl.d
                    THEN <<"Low TVL pool detected - liquidity risk may compound during market stress">>
                    ELSE <<>>)
                   \o
                   (IF Above(Explained(i).predictions["mev_risk"], 4, 10)
                    THEN <<"Pool characteristics indicate elevated MEV bot activity - consider timing of transactions">>
                    ELSE <<>>)

\* clamp01 of a finite value
Clamp01(x) ==
    IF x.n < 0 THEN Zero ELSE IF x.n > x.d THEN One ELSE x

\* C19: with no fitted detector, protocol_risk of a finite feature set is
\* 0.5 x clamp01((1,000,000 - tvl_usd)/1,000,000) + 0.5 x
\* clamp01(volatility_score/100), and the Protocol Security Risk factor is
\* emitted whenever that value exceeds 0.3.
C19_HeuristicUsesVolatility ==
    \A i \in CallsOf("score", "ml") :
        LET features == _extract_features(req)
            expected ==
                Add(Mul(Fin(1, 2),
                        Clamp01(Div(Sub(Million, features.tvl_usd), Million))),
                    Mul(Fin(1, 2),
                        Clamp01(Div(features.volatility_score, Fin(100, 1)))))
        IN  (/\ ~calls[i].observed[1].is_fitted
             /\ HasReturned(i)
             /\ FiniteFeatureSet(features))
            => /\ ReturnedBy(i).predictions["protocol_risk"] = expected
               /\ Above(expected, 3, 10) <=> HasFactor(ReturnedBy(i), {"protocol_risk"})

\* C20: the impermanent-loss risk of a finite feature set is
\* clamp01(0.6 x volatility_score + 0.4 x |price_ratio - 1.0|), clamped from
\* below at 0 and from above at 1.
C20_ImpermanentLossIsClamped ==
    \A i \in CallsOf("score", "ml") :
        LET features == _extract_features(req)
        IN  (HasReturned(i) /\ FiniteFeatureSet(features))
            => ReturnedBy(i).predictions["impermanent_loss_risk"]
                 = Clamp01(Add(Mul(Fin(6, 10), features.volatility_score),
                               Mul(Fin(4, 10), Abs(Sub(features.price_ratio, One)))))

\* the factor of a scoring result with the given factor_id
FactorOf(result, id) ==
    result.risk_factors[CHOOSE k \in DOMAIN result.risk_factors :
                            result.risk_factors[k].factor_id = id]

\* C21: for a pool with finite tvl_usd and volume_24h, sandwich_risk is
\* min(1, volume/max(tvl,1)) x 0.3, frontrun_risk is 0.2 if volume > 100,000
\* and 0.1 otherwise, arbitrage_risk is 0.15 and mev_risk is their mean; an
\* emitted MEV factor carries the three sub-risks with these values in its
\* feature_values.
C21_MevSubRisks ==
    \A i \in CallsOf("score", "ml") :
        LET tvl       == req.pool_state.tvl_usd
            volume    == req.pool_state.volume_24h
            floor     == IF tvl.n > tvl.d THEN tvl ELSE One
            ratio     == Div(volume, floor)
            sandwich  == Mul(IF ratio.n < ratio.d THEN ratio ELSE One, Fin(3, 10))
            frontrun  == IF Above(volume, 100000, 1) THEN Fin(2, 10) ELSE Fin(1, 10)
            arbitrage == Fin(15, 100)
        IN  (HasReturned(i) /\ IsFin(tvl) /\ IsFin(volume))
            => /\ ReturnedBy(i).predictions["mev_risk"]
                    = Div(Add(Add(sandwich, frontrun), arbitrage), Fin(3, 1))
               /\ HasFactor(ReturnedBy(i), {"mev_risk"})
                    => LET evidence == FactorOf(ReturnedBy(i), "mev_risk").feature_values
                       IN  /\ {"sandwich_risk", "frontrun_risk", "arbitrage_risk"}
                                \subseteq DOMAIN evidence
                           /\ evidence.sandwich_risk = sandwich
                           /\ evidence.frontrun_risk = frontrun
                           /\ evidence.arbitrage_risk = arbitrage

\* C21 witness: a result for volume_24h above 100,000 and at least the TVL
\* carries an MEV factor whose evidence holds sandwich_risk 0.3,
\* frontrun_risk 0.2 and arbitrage_risk 0.15.
C21_Witness ==
    \E i \in CallsOf("score", "ml") :
        /\ HasReturned(i)
        /\ HasFactor(ReturnedBy(i), {"mev_risk"})
        /\ FactorOf(ReturnedBy(i), "mev_risk").feature_values.sandwich_risk = Fin(3, 10)
        /\ FactorOf(ReturnedBy(i), "mev_risk").feature_values.frontrun_risk = Fin(2, 10)
        /\ FactorOf(ReturnedBy(i), "mev_risk").feature_values.arbitrage_risk = Fin(15, 100)

\* the place of a factor_id in the evaluation order; 0 for any other id
EvaluationRank(id) ==
    CASE id = "impermanent_loss" -> 1
      [] id = "protocol_risk"    -> 2
      [] id = "mev_risk"         -> 3
      [] OTHER                   -> 0

\* C22: the factor list of every scoring result is a subsequence of
\* (impermanent_loss, protocol_risk, mev_risk): every entry is one of the
\* three, each entry comes later in the evaluation order than the entry
\* before it (so none appears twice), and there are at most three entries.
C22_FactorsInEvaluationOrder ==
    \A i \in CallsOf("score", "ml") :
        HasReturned(i)
        => LET factors == ReturnedBy(i).risk_factors
           IN  /\ Len(factors) <= 3
               /\ \A k \in DOMAIN factors : EvaluationRank(factors[k].factor_id) > 0
               /\ \A k \in DOMAIN factors :
                     k > 1 => EvaluationRank(factors[k - 1].factor_id)
                                < EvaluationRank(factors[k].factor_id)

\* C22 witness: a result lists the impermanent-loss factor before a protocol
\* factor of greater importance, and an MEV factor after both.
C22_Witness ==
    \E i \in CallsOf("score", "ml") :
        /\ HasReturned(i)
        /\ Len(ReturnedBy(i).risk_factors) = 3
        /\ ReturnedBy(i).risk_factors[1].factor_id = "impermanent_loss"
        /\ ReturnedBy(i).risk_factors[2].factor_id = "protocol_risk"
        /\ Lt(ReturnedBy(i).risk_factors[1].importance_score,
              ReturnedBy(i).risk_factors[2].importance_score)

\* the sub-score and the composite weight a factor_id stands for
SubScoreOf(id) ==
    CASE id = "impermanent_loss" -> [key |-> "impermanent_loss_risk", weight |-> Fin(4, 10)]
      [] id = "protocol_risk"    -> [key |-> "protocol_risk", weight |-> Fin(3, 10)]
      [] id = "mev_risk"         -> [key |-> "mev_risk", weight |-> Fin(3, 10)]

\* the sum of the contributions of a factor list
RECURSIVE SumOfContributions(_)
SumOfContributions(factors) ==
    IF factors = <<>> THEN Zero
    ELSE Add(Head(factors).contribution, SumOfContributions(Tail(factors)))

\* the first half of C23: importance_score is the sub-score of the same
\* result and contribution is importance_score times the composite weight
FactorsCarrySubScores(result) ==
    \A k \in DOMAIN result.risk_factors :
        LET factor == result.risk_factors[k]
            of     == SubScoreOf(factor.factor_id)
        IN  /\ factor.importance_score = result.predictions[of.key]
            /\ factor.contribution = Mul(factor.importance_score, of.weight)

\* C23: for every emitted factor importance_score equals the sub-score of the
\* same result and contribution equals importance_score times the composite
\* weight; and the contributions of the emitted factors sum to at most
\* overall_risk_score, to exactly it when all three factors are emitted.
C23_ContributionsWithinOverall ==
    \A i \in CallsOf("score", "ml") :
        HasReturned(i)
        => /\ FactorsCarrySubScores(ReturnedBy(i))
           /\ Le(SumOfContributions(ReturnedBy(i).risk_factors),
                 ReturnedBy(i).overall_risk_score)
           /\ Len(ReturnedBy(i).risk_factors) = 3
                => SumOfContributions(ReturnedBy(i).risk_factors)
                     = ReturnedBy(i).overall_risk_score

\* the texts and the action by which an explanation speaks of MEV
MevSummaryClause ==
    "MEV exploitation risk is elevated. "

MevInsight ==
    "Pool characteristics indicate elevated MEV bot activity - consider timing of transactions"

MevRecommendation ==
    "Use MEV protection tools"

\* the elements of a sequence
Range(seq) ==
    {seq[k] : k \in DOMAIN seq}

\* a number that is zero or more
NonNegative(x) ==
    IsNum(x) /\ Le(Zero, x)

\* C24: a result scored from a request with non-negative tvl_usd and
\* volume_24h has mev_risk at most (0.3 + 0.2 + 0.15)/3 = 13/60, and the
\* explanation of such a result carries no MEV summary clause, no MEV insight
\* and no 'use MEV protection' recommendation.
C24_ScoredMevStaysLow ==
    (NonNegative(req.pool_state.tvl_usd) /\ NonNegative(req.pool_state.volume_24h))
    => /\ \A i \in CallsOf("score", "ml") :
             HasReturned(i) => ~Above(ReturnedBy(i).predictions["mev_risk"], 13, 60)
       /\ \A i \in CallsOf("explain", "ml") :
             /\ HasReturned(i)
             /\ \A k \in 3..Len(ReturnedBy(i).summary) :
                   ReturnedBy(i).summary[k] # MevSummaryClause
             /\ MevInsight \notin Range(ReturnedBy(i).key_insights)
             /\ \A k \in DOMAIN ReturnedBy(i).recommendations :
                   ReturnedBy(i).recommendations[k].action # MevRecommendation

\* C24 witness: a result whose mev_risk is the greatest possible, 13/60, and
\* which carries an MEV factor, has been explained, and the explanation has
\* an entry for that factor but no MEV clause, insight or recommendation.
C24_Witness ==
    \E i \in CallsOf("explain", "ml") :
        /\ HasReturned(i)
        /\ Explained(i).predictions["mev_risk"] = Fin(13, 60)
        /\ HasFactor(Explained(i), {"mev_risk"})
        /\ \E k \in DOMAIN ReturnedBy(i).risk_factors :
              ReturnedBy(i).risk_factors[k].factor_name = "MEV Exploitation Risk"
        /\ MevInsight \notin Range(ReturnedBy(i).key_insights)

\* C25: once the service has been constructed the protocol-risk detector is
\* fitted in every state, whatever score, explain, retrain and modelInfo
\* operations have run: every modelInfo call reports 'trained' and every
\* score call found the detector fitted, so none took the heuristic branch.
C25_AlwaysFittedOnceServing ==
    /\ Serving => protocol_scorer = FittedScorer
    /\ \A i \in CallsOf("info", "ml") :
          /\ HasReturned(i)
          /\ ReturnedBy(i).protocol_risk_scorer.status = "trained"
    /\ \A i \in CallsOf("score", "ml") :
          /\ calls[i].observed[1].is_fitted
          /\ calls[i].outcome
               = predict_risk(req, FittedScorer, model_version, calls[i].at)

\* C25 witness: modelInfo was asked while a retrain was in progress and again
\* after every retrain had completed, and reported 'trained' both times.
C25_Witness ==
    /\ background # <<>>
    /\ InProgress(background) = {}
    /\ \E i, j \in CallsOf("info", "ml") :
          /\ i < j
          /\ calls[i].retraining
          /\ ~calls[j].retraining
          /\ ReturnedBy(i).protocol_risk_scorer.status = "trained"
          /\ ReturnedBy(j).protocol_risk_scorer.status = "trained"

\* C26: every scoring result carries a sub-scores map with exactly the keys
\* impermanent_loss_risk, protocol_risk, mev_risk and liquidation_risk, with
\* liquidation_risk 0.1, and confidence 0.85; the explanation of a scoring
\* result, with the same request, never fails, has one record for each risk
\* factor of the result in the same order, and copies its confidence.
C26_ScoredResultIsExplainable ==
    /\ \A i \in CallsOf("score", "ml") :
          HasReturned(i)
          => /\ DOMAIN ReturnedBy(i).predictions
                  = {"impermanent_loss_risk", "protocol_risk", "mev_risk",
                     "liquidation_risk"}
             /\ ReturnedBy(i).predictions["liquidation_risk"] = Fin(1, 10)
             /\ ReturnedBy(i).confidence = Fin(85, 100)
    /\ \A i \in CallsOf("explain", "ml") :
          /\ HasReturned(i)
          /\ Len(ReturnedBy(i).risk_factors) = Len(Explained(i).risk_factors)
          /\ \A k \in DOMAIN Explained(i).risk_factors :
                /\ ReturnedBy(i).risk_factors[k].factor_name
                     = Explained(i).risk_factors[k].factor_name
                /\ ReturnedBy(i).risk_factors[k].importance
                     = Explained(i).risk_factors[k].importance_score
                /\ ReturnedBy(i).risk_factors[k].explanation.template
                     = Explained(i).risk_factors[k].factor_id
          /\ ReturnedBy(i).confidence = Explained(i).confidence

\* C26 witness: a scoring result with three risk factors has been explained:
\* the explanation has three records, the first for the impermanent-loss
\* factor with its two lines of evidence, and confidence 0.85.
C26_Witness ==
    \E i \in CallsOf("score", "ml"), j \in CallsOf("explain", "ml") :
        /\ HasReturned(i)
        /\ Explained(j) = ReturnedBy(i)
        /\ HasReturned(j)
        /\ Len(ReturnedBy(j).risk_factors) = 3
        /\ ReturnedBy(j).risk_factors[1].factor_name = "Impermanent Loss Risk"
        /\ Len(ReturnedBy(j).risk_factors[1].evidence) = 2
        /\ ReturnedBy(j).confidence = Fin(85, 100)

====
